---- MODULE Spec2Model ----
(***************************************************************************)
(* Model of pastepwn: the PastePwn orchestrator (core/pastepwn.py), its    *)
(* lifecycle calls start / stop / idle / signal_handler, and the           *)
(* WordAnalyzer (analyzers/wordanalyzer.py).                               *)
(*                                                                         *)
(* Threads of the orchestrator model:                                      *)
(*   - the main thread, which makes the API calls one after the other and  *)
(*     whose idle() loop is modelled statement by statement (main_pc);     *)
(*   - the signal handler, which Python runs on the main thread between    *)
(*     two statements of whatever the main thread is executing;            *)
(*   - one other thread calling stop();                                    *)
(*   - the scraper units, which set the exception event when they fail.    *)
(***************************************************************************)
EXTENDS Integers, Sequences, FiniteSets, TLC

(***************************************************************************)
(* Bounds of the model.                                                    *)
(***************************************************************************)
MaxErrorHandlers == 2
MaxOnstartHandlers == 2
MaxScrapers == 2
MaxIdleRuns == 2
MaxSignals == 1
MaxOtherStops == 1
MaxAnalyzers == 2
MaxBodyLen == 3
MaxWords == 2
MaxBlacklist == 2
MaxMatchCalls == 2
MaxSaveCalls == 2
MaxPastes == 2

VARIABLES
    is_idle,            \* PastePwn.is_idle
    exception_event,    \* PastePwn.__exception_event (threading.Event) is set
    error_handlers,     \* PastePwn.error_handlers: behaviour of each callable
    onstart_handlers,   \* PastePwn.onstart_handlers: behaviour of each callable
    scrapers,           \* ScrapingHandler.scrapers
    running,            \* which of the three stages has been started and not stopped
    main_pc,            \* position of the main thread
    idle_i,             \* index of idle()'s loop over error_handlers
    last_call,          \* the call the main thread made last (idle(): once it has ended)
    last_result,        \* how that call ended: "ok", "exit" (SystemExit), "raised",
                        \* "fault_return"; "running" while start() or stop() runs
    start_log,          \* calls made by the last start(), in order
    err_log,            \* error handlers invoked by the current / last idle(), in order
    err_total,          \* per error handler: invocations since construction
    stop_req,           \* per stage: stop() requests since the current idle() was entered
    idle_runs,          \* number of idle() calls so far
    signals,            \* number of signals delivered so far
    sig_installed,      \* signal(sig, self.signal_handler) has been executed
    sig_in_wait,        \* a signal arrived while this idle() slept with the event clear
    other_stops,        \* number of stop() calls of the other thread
    other_pc,           \* statements of stop() the other thread has executed (0: not in stop())
    start_i,            \* position of start() in its stages or onstart handlers
    stop_i,             \* statements of stop() the main thread has executed in its call
    sig_pc,             \* the signal handlers running on the main thread, innermost last:
                        \* for each the stages its stop() has stopped so far
    analyzers,          \* PasteDispatcher's analyzers, in registration order
    wa_words,           \* WordAnalyzer.words
    wa_blacklist,       \* WordAnalyzer.blacklist
    wa_case_sensitive,  \* WordAnalyzer.case_sensitive
    wa_blacklist0,      \* the blacklist as it was passed to the constructor
    wa_calls,           \* number of calls of match so far
    wa_paste,           \* the paste last passed to match
    wa_result,          \* what match returned for it
    wa_prev_result,     \* what the call of match before that one returned
    sf_file_ending,     \* SaveFileAction.file_ending
    sf_template,        \* SaveFileAction.template
    sf_dir_exists,      \* whether SaveFileAction.path exists
    sf_files,           \* the files under SaveFileAction.path: records of name and content
    sf_ops,             \* the file system operations of the last perform, in order
    sf_calls,           \* number of calls of perform so far
    sf_paste,           \* the paste last passed to perform
    paste_queue,        \* the paste queue (line 29): scraped pastes not yet dispatched
    action_queue,       \* the action queue (line 30): invocations not yet executed
    action_log,         \* the invocations ActionHandler has executed, with their outcome
    scraped             \* number of pastes the scrapers have produced

orch_vars == <<is_idle, exception_event, error_handlers, onstart_handlers, scrapers,
               running, main_pc, idle_i, last_call, last_result, start_log, err_log,
               err_total, stop_req, idle_runs, signals, sig_installed, sig_in_wait,
               other_stops, other_pc, start_i, stop_i, sig_pc>>
wa_vars == <<wa_words, wa_blacklist, wa_case_sensitive, wa_blacklist0, wa_calls,
             wa_paste, wa_result, wa_prev_result>>
sf_vars == <<sf_file_ending, sf_template, sf_dir_exists, sf_files, sf_ops, sf_calls,
             sf_paste>>
disp_vars == <<analyzers>>
pipe_vars == <<paste_queue, action_queue, action_log, scraped>>
comp_vars == <<wa_vars, sf_vars, pipe_vars>>
vars == <<orch_vars, disp_vars, comp_vars>>

(***************************************************************************)
(* Small helpers.                                                          *)
(***************************************************************************)
Indices(s) == [i \in 1..Len(s) |-> i]

SeqsUpTo(S, n) == UNION {[1..k -> S] : k \in 0..n}

Stages == {"scraping", "dispatch", "action"}

\* What a registered callable does when it is called.  "raise_noname" is a
\* callable without a __name__ attribute (functools.partial, an instance with
\* __call__) that raises an Exception.
ErrorKinds == {"ok", "raise"}
OnstartKinds == {"ok", "raise", "raise_noname"}


(***************************************************************************)
(* The three stages and the scraper registry.  ScrapingHandler,            *)
(* PasteDispatcher and ActionHandler are used by pastepwn.py but defined   *)
(* elsewhere; they are modelled from the specification (4.1 - 4.3):        *)
(* start() makes a stage running, stop() makes it stopped, add registers a *)
(* source at the end of the registry.                                      *)
(***************************************************************************)
StageStart(r, s) == [r EXCEPT ![s] = TRUE]

StageStop(r, s) == [r EXCEPT ![s] = FALSE]

ScrapingAdd(reg, scraper, restart) == Append(reg, scraper)

\* A scraper after init_exception_event(self.__exception_event): it holds the
\* orchestrator's own event.
InitExceptionEvent_Own(kind) == [kind |-> kind, event |-> "own"]

InitExceptionEvent(kind) == [kind |-> kind, event |-> "orchestrator"]

\* lines 50-52: the event each stage is constructed with is self.__exception_event
StageEvent(s) == "orchestrator"

Scrapers == {InitExceptionEvent(k) : k \in {"user", "default"}}

\* One entry of start_log.
Ev(kind, name, idx) == [kind |-> kind, name |-> name, idx |-> idx]

(***************************************************************************)
(* The analyzers.  An analyzer is its name, what its match does ("word": a *)
(* WordAnalyzer with these words, blacklist and case_sensitive; "true": an *)
(* AlwaysTrueAnalyzer; "raise": match raises) and its actions in order.    *)
(***************************************************************************)
\* lines 54-59: AlwaysTrueAnalyzer(DatabaseAction(self.database)), registered by
\* __init__ when a database is given and store_all_pastes is true
StoreAllAnalyzer ==
    [name |-> "AlwaysTrue", kind |-> "true", words |-> <<>>,
     blacklist |-> <<>>, case_sensitive |-> FALSE,
     actions |-> <<"database">>]

\* The analyzers add_analyzer is called with: WordAnalyzers with their actions,
\* and one whose match raises
WordA ==
    [name |-> "A", kind |-> "word", words |-> << <<"a">> >>,
     blacklist |-> << <<"A", "b">> >>, case_sensitive |-> FALSE,
     actions |-> <<"basic", "database">>]

WordB ==
    [name |-> "B", kind |-> "word", words |-> << <<"b">> >>,
     blacklist |-> <<>>, case_sensitive |-> TRUE,
     actions |-> <<"database">>]

Failing ==
    [name |-> "F", kind |-> "raise", words |-> <<>>,
     blacklist |-> <<>>, case_sensitive |-> FALSE,
     actions |-> <<"database">>]

AnalyzerPool == {WordA, WordB, Failing}

(***************************************************************************)
(* PastePwn.__init__: without a database, or with one and store_all_pastes *)
(***************************************************************************)
OrchInit ==
    /\ is_idle = FALSE
    /\ exception_event = FALSE
    /\ error_handlers = <<>>
    /\ onstart_handlers = <<>>
    /\ scrapers = <<>>
    /\ running = [s \in Stages |-> FALSE]
    /\ main_pc = "ready"
    /\ sig_pc = <<>>
    /\ idle_i = 0
    /\ last_call = "none"
    /\ last_result = "ok"
    /\ start_log = <<>>
    /\ err_log = <<>>
    /\ err_total = <<>>
    /\ stop_req = [s \in Stages |-> 0]
    /\ idle_runs = 0
    /\ signals = 0
    /\ sig_installed = FALSE
    /\ sig_in_wait = FALSE
    /\ other_stops = 0
    /\ other_pc = 0
    /\ start_i = 0
    /\ stop_i = 0
    /\ analyzers \in {<<>>, <<StoreAllAnalyzer>>}

(***************************************************************************)
(* Registration calls of the main thread.  The callbacks are registered    *)
(* first, before any call that is not a registration (spec 3: the          *)
(* registries are mutated only before start(), scrapers excepted).         *)
(***************************************************************************)
RegisteringHandlers == last_call \in {"none", "add_handler"}

\* add_scraper(scraper, restart_scraping)
AddScraper ==
    /\ main_pc = "ready"
    /\ sig_pc = <<>>
    /\ Len(scrapers) < MaxScrapers
    /\ \E restart \in BOOLEAN :
          scrapers' = ScrapingAdd(scrapers, InitExceptionEvent("user"), restart)
    /\ last_call' = "add_scraper"
    /\ last_result' = "ok"
    /\ UNCHANGED <<is_idle, exception_event, error_handlers, onstart_handlers, running,
                   main_pc, idle_i, start_log, err_log, err_total, stop_req, idle_runs,
                   signals, sig_installed, sig_in_wait, other_stops, other_pc, start_i, stop_i, sig_pc, disp_vars, comp_vars>>

\* add_analyzer(analyzer), line 79, called at any time between two other calls
\* of the main thread; PasteDispatcher.add_analyzer is modelled from spec 3 (an
\* ordered registry)
DispatchAdd(reg, analyzer) == Append(reg, analyzer)

AddAnalyzer ==
    /\ main_pc = "ready"
    /\ sig_pc = <<>>
    /\ Len(analyzers) < MaxAnalyzers
    /\ \E a \in AnalyzerPool : analyzers' = DispatchAdd(analyzers, a)
    /\ last_call' = "add_handler"
    /\ last_result' = "ok"
    /\ UNCHANGED <<is_idle, exception_event, error_handlers, onstart_handlers, scrapers,
                   running, main_pc, idle_i, start_log, err_log, err_total, stop_req,
                   idle_runs, signals, sig_installed, sig_in_wait, other_stops, other_pc, start_i, stop_i, sig_pc, comp_vars>>

\* add_error_handler(error_handler); a handler that is not callable is refused
AddErrorHandler ==
    /\ main_pc = "ready"
    /\ sig_pc = <<>>
    /\ RegisteringHandlers
    /\ Len(error_handlers) < MaxErrorHandlers
    /\ \E h \in ErrorKinds \cup {"not_callable"} :
          IF h = "not_callable"
          THEN UNCHANGED <<error_handlers, err_total>>
          ELSE /\ error_handlers' = Append(error_handlers, h)
               /\ err_total' = Append(err_total, 0)
    /\ last_call' = "add_handler"
    /\ last_result' = "ok"
    /\ UNCHANGED <<is_idle, exception_event, onstart_handlers, scrapers, running,
                   main_pc, idle_i, start_log, err_log, stop_req, idle_runs,
                   signals, sig_installed, sig_in_wait, other_stops, other_pc, start_i, stop_i, sig_pc, disp_vars, comp_vars>>

\* add_onstart_handler(onstart_handler)
AddOnstartHandler ==
    /\ main_pc = "ready"
    /\ sig_pc = <<>>
    /\ RegisteringHandlers
    /\ Len(onstart_handlers) < MaxOnstartHandlers
    /\ \E h \in OnstartKinds \cup {"not_callable"} :
          IF h = "not_callable"
          THEN UNCHANGED onstart_handlers
          ELSE onstart_handlers' = Append(onstart_handlers, h)
    /\ last_call' = "add_handler"
    /\ last_result' = "ok"
    /\ UNCHANGED <<is_idle, exception_event, error_handlers, scrapers, running,
                   main_pc, idle_i, start_log, err_log, err_total, stop_req, idle_runs,
                   signals, sig_installed, sig_in_wait, other_stops, other_pc, start_i, stop_i, sig_pc, disp_vars, comp_vars>>

(***************************************************************************)
(* PastePwn.start                                                          *)
(***************************************************************************)
\* start() without its check of the exception event
StartAborts_Never == FALSE

\* line 103: start() refuses to run when the exception event is set (sys.exit)
StartAborts == exception_event

\* start() registering the PastebinScraper whatever the registry holds
NeedsDefaultScraper_Always(reg) == TRUE

\* line 106: no scraper registered, the PastebinScraper is added
NeedsDefaultScraper(reg) == reg = <<>>

\* lines 107-108: self.add_scraper(PastebinScraper(), restart_scraping=True)
WithDefaultScraper(reg) ==
    IF NeedsDefaultScraper(reg)
    THEN ScrapingAdd(reg, InitExceptionEvent("default"), TRUE)
    ELSE reg

\* start() starting the dispatcher before the scraping handler
StageStartOrder_DispatchFirst == <<"dispatch", "scraping", "action">>

\* lines 109-111: the order in which start() starts the stages
StageStartOrder == <<"scraping", "dispatch", "action">>

\* lines 114-117: what one onstart handler does to the loop.  An Exception is
\* caught; the except branch then evaluates onstart_handler.__name__ for the log
\* line, which raises AttributeError for a callable that has no __name__.
OnstartOutcome(kind) ==
    CASE kind = "ok" -> "continue"
      [] kind = "raise" -> "continue"
      [] kind = "raise_noname" -> "propagate"

\* lines 103-108: start() tests the exception event and leaves by sys.exit(1)
\* if it is set; otherwise it registers the default scraper if none is
\* registered.  last_result is "running" until start() has ended.
StartEnter ==
    /\ main_pc = "ready"
    /\ sig_pc = <<>>
    /\ last_call' = "start"
    /\ IF StartAborts
       THEN /\ last_result' = "exit"
            /\ start_log' = <<>>
            /\ UNCHANGED <<scrapers, main_pc, start_i>>
       ELSE /\ scrapers' = WithDefaultScraper(scrapers)
            /\ start_log' = IF NeedsDefaultScraper(scrapers)
                            THEN <<Ev("add_scraper", "default", 0)>> ELSE <<>>
            /\ last_result' = "running"
            /\ main_pc' = "start_stages"
            /\ start_i' = 1
    /\ UNCHANGED <<is_idle, exception_event, error_handlers, onstart_handlers, running,
                   idle_i, err_log, err_total, stop_req, idle_runs, signals,
                   sig_installed, sig_in_wait, other_stops, other_pc, stop_i, sig_pc, disp_vars,
                   comp_vars>>

\* lines 109-111, one of them: the next stage is started.  After the last one
\* start() goes on to the onstart handlers, or returns if there is none.
StartStage ==
    /\ main_pc = "start_stages"
    /\ sig_pc = <<>>
    /\ running' = StageStart(running, StageStartOrder[start_i])
    /\ start_log' = Append(start_log, Ev("start", StageStartOrder[start_i], 0))
    /\ IF start_i < Len(StageStartOrder)
       THEN /\ start_i' = start_i + 1
            /\ UNCHANGED <<main_pc, last_result>>
       ELSE IF onstart_handlers # <<>>
       THEN /\ main_pc' = "start_onstart"
            /\ start_i' = 1
            /\ UNCHANGED last_result
       ELSE /\ main_pc' = "ready"
            /\ start_i' = 0
            /\ last_result' = "ok"
    /\ UNCHANGED <<is_idle, exception_event, error_handlers, onstart_handlers, scrapers,
                   idle_i, last_call, err_log, err_total, stop_req, idle_runs, signals,
                   sig_installed, sig_in_wait, other_stops, other_pc, stop_i, sig_pc, disp_vars,
                   comp_vars>>

\* lines 113-117, one iteration of the loop over onstart_handlers
StartOnstart ==
    /\ main_pc = "start_onstart"
    /\ sig_pc = <<>>
    /\ start_log' = Append(start_log, Ev("onstart", onstart_handlers[start_i], start_i))
    /\ IF OnstartOutcome(onstart_handlers[start_i]) = "propagate"
       THEN /\ main_pc' = "ready"
            /\ start_i' = 0
            /\ last_result' = "raised"
       ELSE IF start_i < Len(onstart_handlers)
       THEN /\ start_i' = start_i + 1
            /\ UNCHANGED <<main_pc, last_result>>
       ELSE /\ main_pc' = "ready"
            /\ start_i' = 0
            /\ last_result' = "ok"
    /\ UNCHANGED <<is_idle, exception_event, error_handlers, onstart_handlers, scrapers,
                   running, idle_i, last_call, err_log, err_total, stop_req, idle_runs,
                   signals, sig_installed, sig_in_wait, other_stops, other_pc, stop_i, sig_pc,
                   disp_vars, comp_vars>>

(***************************************************************************)
(* PastePwn.stop                                                           *)
(***************************************************************************)
\* lines 121-123: the order in which stop() stops the stages
StageStopOrder == <<"scraping", "dispatch", "action">>

RECURSIVE StopStages(_, _)
StopStages(r, order) ==
    IF order = <<>> THEN r
    ELSE StopStages(StageStop(r, Head(order)), Tail(order))

\* stop requests are counted while an idle() call is in progress
\* The main thread is inside idle()
InIdle == main_pc \in {"loop", "check", "handlers", "fault_stop", "fault_return", "sleep"}

CountStop(c, stages) ==
    [s \in Stages |-> IF s \in stages /\ InIdle THEN c[s] + 1 ELSE c[s]]

\* stop() clearing the exception event as part of the shutdown
Stop_ClearsEvent ==
    /\ main_pc = "ready"
    /\ sig_pc = <<>>
    /\ main_pc' = "stop"
    /\ stop_i' = 0
    /\ exception_event' = FALSE
    /\ last_call' = "stop"
    /\ last_result' = "running"
    /\ UNCHANGED <<is_idle, error_handlers, onstart_handlers, scrapers,
                   running, idle_i, start_log, err_log, err_total, stop_req, idle_runs,
                   signals, sig_installed, sig_in_wait, other_stops, other_pc, start_i,
                   sig_pc, disp_vars, comp_vars>>

\* stop() called by the main thread between two other calls: the call is
\* entered.  last_result is "running" until stop() has ended.
Stop ==
    /\ main_pc = "ready"
    /\ sig_pc = <<>>
    /\ main_pc' = "stop"
    /\ stop_i' = 0
    /\ last_call' = "stop"
    /\ last_result' = "running"
    /\ UNCHANGED <<is_idle, exception_event, error_handlers, onstart_handlers, scrapers,
                   running, idle_i, start_log, err_log, err_total, stop_req, idle_runs,
                   signals, sig_installed, sig_in_wait, other_stops, other_pc, start_i,
                   sig_pc, disp_vars, comp_vars>>

\* lines 121-123, one of them, in the stop() the main thread has called
\* directly or from line 150 of idle(): the next stage is stopped
StopStage ==
    /\ main_pc \in {"stop", "fault_stop"}
    /\ sig_pc = <<>>
    /\ stop_i < Len(StageStopOrder)
    /\ running' = StageStop(running, StageStopOrder[stop_i + 1])
    /\ stop_req' = CountStop(stop_req, {StageStopOrder[stop_i + 1]})
    /\ stop_i' = stop_i + 1
    /\ UNCHANGED <<is_idle, exception_event, error_handlers, onstart_handlers, scrapers,
                   main_pc, idle_i, last_call, last_result, start_log, err_log,
                   err_total, idle_runs, signals, sig_installed, sig_in_wait,
                   other_stops, other_pc, start_i, sig_pc, disp_vars, comp_vars>>

\* line 124 of that stop(): self.is_idle = False, and stop() returns to the
\* caller of the main thread or to line 151 of idle()
StopFlag ==
    /\ main_pc \in {"stop", "fault_stop"}
    /\ sig_pc = <<>>
    /\ stop_i = Len(StageStopOrder)
    /\ is_idle' = FALSE
    /\ stop_i' = 0
    /\ IF main_pc = "stop"
       THEN /\ main_pc' = "ready"
            /\ last_result' = "ok"
       ELSE /\ main_pc' = "fault_return"
            /\ UNCHANGED last_result
    /\ UNCHANGED <<exception_event, error_handlers, onstart_handlers, scrapers, running,
                   idle_i, last_call, start_log, err_log, err_total, stop_req, idle_runs,
                   signals, sig_installed, sig_in_wait, other_stops, other_pc, start_i,
                   sig_pc, disp_vars, comp_vars>>

\* stop() called by the other thread, at any point of the main thread, one
\* statement at a time.  Lines 121-123, one of them: the next stage is stopped.
OtherStopStage ==
    /\ other_pc < Len(StageStopOrder)
    /\ other_pc = 0 => other_stops < MaxOtherStops
    /\ other_stops' = IF other_pc = 0 THEN other_stops + 1 ELSE other_stops
    /\ running' = StageStop(running, StageStopOrder[other_pc + 1])
    /\ stop_req' = CountStop(stop_req, {StageStopOrder[other_pc + 1]})
    /\ other_pc' = other_pc + 1
    /\ UNCHANGED <<is_idle, exception_event, error_handlers, onstart_handlers, scrapers,
                   main_pc, idle_i, last_call, last_result, start_log, err_log,
                   err_total, idle_runs, signals, sig_installed, sig_in_wait, start_i,
                   stop_i, sig_pc,
                   disp_vars, comp_vars>>

\* line 124 of the other thread's stop(): self.is_idle = False
OtherStopFlag ==
    /\ other_pc = Len(StageStopOrder)
    /\ is_idle' = FALSE
    /\ other_pc' = 0
    /\ UNCHANGED <<exception_event, error_handlers, onstart_handlers, scrapers, running,
                   main_pc, idle_i, last_call, last_result, start_log, err_log,
                   err_total, stop_req, idle_runs, signals, sig_installed, sig_in_wait,
                   other_stops, start_i, stop_i, sig_pc, disp_vars, comp_vars>>

\* signal_handler clearing is_idle without calling stop()
SignalHandler_FlagOnly ==
    /\ sig_installed
    /\ signals < MaxSignals
    /\ signals' = signals + 1
    /\ is_idle' = FALSE
    /\ sig_in_wait' = (sig_in_wait \/ (main_pc = "sleep" /\ ~exception_event))
    /\ UNCHANGED <<exception_event, error_handlers, onstart_handlers, scrapers, running,
                   main_pc, idle_i, last_call, last_result, start_log, err_log,
                   err_total, stop_req, idle_runs, sig_installed, other_stops, other_pc,
                   start_i, stop_i, sig_pc, disp_vars, comp_vars>>

\* signal_handler, line 128: once idle() has installed it, a signal makes it
\* run on the main thread between two of that thread's statements, those of a
\* handler already running included; it first clears is_idle.  The main thread
\* goes on where it was when the handler has returned.
SignalHandler ==
    /\ sig_installed
    /\ signals < MaxSignals
    /\ signals' = signals + 1
    /\ is_idle' = FALSE
    /\ sig_pc' = Append(sig_pc, 0)
    /\ sig_in_wait' = (sig_in_wait \/ (main_pc = "sleep" /\ ~exception_event))
    /\ UNCHANGED <<exception_event, error_handlers, onstart_handlers, scrapers, running,
                   main_pc, idle_i, last_call, last_result, start_log, err_log,
                   err_total, stop_req, idle_runs, sig_installed, other_stops, other_pc,
                   start_i, stop_i, disp_vars, comp_vars>>

\* line 130 calls stop(); lines 121-123, one of them, in the innermost handler
SignalStopStage ==
    /\ sig_pc # <<>>
    /\ sig_pc[Len(sig_pc)] < Len(StageStopOrder)
    /\ running' = StageStop(running, StageStopOrder[sig_pc[Len(sig_pc)] + 1])
    /\ stop_req' = CountStop(stop_req, {StageStopOrder[sig_pc[Len(sig_pc)] + 1]})
    /\ sig_pc' = [sig_pc EXCEPT ![Len(sig_pc)] = @ + 1]
    /\ UNCHANGED <<is_idle, exception_event, error_handlers, onstart_handlers, scrapers,
                   main_pc, idle_i, last_call, last_result, start_log, err_log,
                   err_total, idle_runs, signals, sig_installed, sig_in_wait,
                   other_stops, other_pc, start_i, stop_i, disp_vars, comp_vars>>

\* line 124 of the innermost handler's stop(): self.is_idle = False; stop() and
\* the handler return
SignalStopFlag ==
    /\ sig_pc # <<>>
    /\ sig_pc[Len(sig_pc)] = Len(StageStopOrder)
    /\ is_idle' = FALSE
    /\ sig_pc' = SubSeq(sig_pc, 1, Len(sig_pc) - 1)
    /\ UNCHANGED <<exception_event, error_handlers, onstart_handlers, scrapers, running,
                   main_pc, idle_i, last_call, last_result, start_log, err_log,
                   err_total, stop_req, idle_runs, signals, sig_installed, sig_in_wait,
                   other_stops, other_pc, start_i, stop_i, disp_vars, comp_vars>>

\* A scraper unit fails: the scraping stage sets the exception event (spec 4.1)
ScraperFault ==
    /\ running["scraping"]
    /\ scrapers # <<>>
    /\ ~exception_event
    /\ exception_event' = TRUE
    /\ UNCHANGED <<is_idle, error_handlers, onstart_handlers, scrapers, running,
                   main_pc, idle_i, last_call, last_result, start_log, err_log,
                   err_total, stop_req, idle_runs, signals, sig_installed,
                   sig_in_wait, other_stops, other_pc, start_i, stop_i, sig_pc, disp_vars, comp_vars>>

(***************************************************************************)
(* PastePwn.idle, statement by statement                                   *)
(***************************************************************************)
\* lines 137-141: is_idle = True, the signal handlers are installed
IdleEnter ==
    /\ main_pc = "ready"
    /\ sig_pc = <<>>
    /\ idle_runs < MaxIdleRuns
    /\ idle_runs' = idle_runs + 1
    /\ is_idle' = TRUE
    /\ sig_installed' = TRUE
    /\ main_pc' = "loop"
    /\ idle_i' = 0
    /\ err_log' = <<>>
    /\ stop_req' = [s \in Stages |-> 0]
    /\ sig_in_wait' = FALSE
    /\ UNCHANGED <<exception_event, error_handlers, onstart_handlers, scrapers, running,
                   last_call, last_result, start_log, err_total, signals,
                   other_stops, other_pc, start_i, stop_i, sig_pc, disp_vars, comp_vars>>

\* line 143: while self.is_idle
IdleLoop ==
    /\ main_pc = "loop"
    /\ sig_pc = <<>>
    /\ IF is_idle
       THEN /\ main_pc' = "check"
            /\ UNCHANGED <<last_call, last_result>>
       ELSE /\ main_pc' = "ready"
            /\ last_call' = "idle"
            /\ last_result' = "ok"
    /\ UNCHANGED <<is_idle, exception_event, error_handlers, onstart_handlers, scrapers,
                   running, idle_i, start_log, err_log, err_total, stop_req, idle_runs,
                   signals, sig_installed, sig_in_wait, other_stops, other_pc, start_i, stop_i, sig_pc, disp_vars, comp_vars>>

\* line 144: if self.__exception_event.is_set()
IdleCheck ==
    /\ main_pc = "check"
    /\ sig_pc = <<>>
    /\ IF exception_event
       THEN /\ main_pc' = "handlers"
            /\ idle_i' = 1
       ELSE /\ main_pc' = "sleep"
            /\ UNCHANGED idle_i
    /\ UNCHANGED <<is_idle, exception_event, error_handlers, onstart_handlers, scrapers,
                   running, last_call, last_result, start_log, err_log, err_total,
                   stop_req, idle_runs, signals, sig_installed, sig_in_wait,
                   other_stops, other_pc, start_i, stop_i, sig_pc, disp_vars, comp_vars>>

\* line 148: handler() is called with nothing around it, so whatever it raises
\* leaves the loop and idle()
ErrorOutcome(kind) ==
    CASE kind = "ok" -> "continue"
      [] kind = "raise" -> "propagate"

\* lines 146-148: one iteration of the loop over error_handlers
IdleHandler ==
    /\ main_pc = "handlers"
    /\ sig_pc = <<>>
    /\ idle_i <= Len(error_handlers)
    /\ err_log' = Append(err_log, idle_i)
    /\ err_total' = [err_total EXCEPT ![idle_i] = @ + 1]
    /\ IF ErrorOutcome(error_handlers[idle_i]) = "propagate"
       THEN /\ main_pc' = "ready"
            /\ last_call' = "idle"
            /\ last_result' = "raised"
            /\ idle_i' = 0
       ELSE /\ idle_i' = idle_i + 1
            /\ UNCHANGED <<main_pc, last_call, last_result>>
    /\ UNCHANGED <<is_idle, exception_event, error_handlers, onstart_handlers, scrapers,
                   running, start_log, stop_req, idle_runs, signals, sig_installed,
                   sig_in_wait, other_stops, other_pc, start_i, stop_i, sig_pc, disp_vars, comp_vars>>

\* line 149, after the last handler: is_idle = False; line 150 then calls
\* stop() (StopStage, StopFlag)
IdleFaultStop ==
    /\ main_pc = "handlers"
    /\ sig_pc = <<>>
    /\ idle_i > Len(error_handlers)
    /\ is_idle' = FALSE
    /\ main_pc' = "fault_stop"
    /\ stop_i' = 0
    /\ UNCHANGED <<exception_event, error_handlers, onstart_handlers, scrapers, running,
                   idle_i, last_call, last_result, start_log, err_log, err_total,
                   stop_req, idle_runs, signals, sig_installed, sig_in_wait,
                   other_stops, other_pc, start_i, sig_pc, disp_vars, comp_vars>>

\* line 151: return, after stop() has returned
IdleFaultReturn ==
    /\ main_pc = "fault_return"
    /\ sig_pc = <<>>
    /\ main_pc' = "ready"
    /\ last_call' = "idle"
    /\ last_result' = "fault_return"
    /\ idle_i' = 0
    /\ UNCHANGED <<is_idle, exception_event, error_handlers, onstart_handlers, scrapers,
                   running, start_log, err_log, err_total, stop_req, idle_runs, signals,
                   sig_installed, sig_in_wait, other_stops, other_pc, start_i, stop_i,
                   sig_pc, disp_vars, comp_vars>>

\* line 153: sleep(1)
IdleSleep ==
    /\ main_pc = "sleep"
    /\ sig_pc = <<>>
    /\ main_pc' = "loop"
    /\ UNCHANGED <<is_idle, exception_event, error_handlers, onstart_handlers, scrapers,
                   running, idle_i, last_call, last_result, start_log, err_log, err_total,
                   stop_req, idle_runs, signals, sig_installed, sig_in_wait,
                   other_stops, other_pc, start_i, stop_i, sig_pc, disp_vars, comp_vars>>

(***************************************************************************)
(* The orchestrator's specification.                                       *)
(***************************************************************************)
(***************************************************************************)
(* WordAnalyzer.  A string is a sequence of characters.                    *)
(***************************************************************************)
\* The characters of the paste bodies ("B" occurs in configured words only)
Alphabet == {"a", "A", "b"}

\* str.lower() on one character
LowerChar(c) ==
    CASE c = "A" -> "a"
      [] c = "B" -> "b"
      [] OTHER -> c

\* str.lower()
Lower(str) == [i \in 1..Len(str) |-> LowerChar(str[i])]

\* word in text
IsSubstring(word, text) ==
    \E i \in 0..(Len(text) - Len(word)) : SubSeq(text, i + 1, i + Len(word)) = word

\* The words a matcher is configured with, and the paste bodies
WordPool == {<<"a">>, <<"A", "b">>, <<"B">>}

Bodies == SeqsUpTo(Alphabet, MaxBodyLen)

\* match(paste): None, a paste whose body is None, a paste with a body
NonePaste == [none |-> TRUE, has_body |-> FALSE, body |-> <<>>]

Pastes ==
    {NonePaste, [none |-> FALSE, has_body |-> FALSE, body |-> <<>>]}
    \cup {[none |-> FALSE, has_body |-> TRUE, body |-> b] : b \in Bodies}

\* What match returns: False, or the list of matches
ReturnFalse == [is_false |-> TRUE, matches |-> <<>>]

ReturnList(l) == [is_false |-> FALSE, matches |-> l]

\* line 37: paste.body or ""
PasteContent(paste) == IF paste.has_body THEN paste.body ELSE <<>>

\* lines 19-21: self.blacklist after _blacklist_word_found
BlacklistAfter(bl, cs) ==
    IF ~cs THEN [i \in 1..Len(bl) |-> Lower(bl[i])] ELSE bl

\* _blacklist_word_found lower-casing the blacklist but not the text
BlacklistWordFound_TextAsIs(text, bl, cs) ==
    LET b == BlacklistAfter(bl, cs)
    IN  \E i \in 1..Len(b) : IsSubstring(b[i], text)

\* _blacklist_word_found searching with the blacklist as it was before line 21
BlacklistWordFound_BeforeLowering(text, bl, cs) ==
    LET t == IF ~cs THEN Lower(text) ELSE text
    IN  \E i \in 1..Len(bl) : IsSubstring(bl[i], t)

\* lines 18-23: _blacklist_word_found(text)
BlacklistWordFound(text, bl, cs) ==
    LET t == IF ~cs THEN Lower(text) ELSE text
        b == BlacklistAfter(bl, cs)
    IN  \E i \in 1..Len(b) : IsSubstring(b[i], t)

\* match comparing as given whatever case_sensitive says
WordHit_AsGiven(word, content, cs) == IsSubstring(word, content)

\* lines 42-50: the words found in the paste
WordHit(word, content, cs) ==
    IF cs THEN IsSubstring(word, content)
    ELSE IsSubstring(Lower(word), Lower(content))

\* match returning at the first word found
MatchedWords_FirstOnly(words, content, cs) ==
    LET Hit(w) == WordHit(w, content, cs)
        found == SelectSeq(words, Hit)
    IN  IF found = <<>> THEN <<>> ELSE <<Head(found)>>

MatchedWords(words, content, cs) ==
    LET Hit(w) == WordHit(w, content, cs)
    IN  SelectSeq(words, Hit)

\* lines 32-50: match(paste)
MatchReturn(paste, words, bl, cs) ==
    IF paste.none THEN ReturnFalse
    ELSE IF BlacklistWordFound(PasteContent(paste), bl, cs) THEN ReturnFalse
    ELSE ReturnList(MatchedWords(words, PasteContent(paste), cs))

\* No analyzer under test
WaIdle ==
    /\ wa_words = <<>>
    /\ wa_blacklist = <<>>
    /\ wa_blacklist0 = <<>>
    /\ wa_case_sensitive = FALSE
    /\ wa_calls = 0
    /\ wa_paste = NonePaste
    /\ wa_result = ReturnFalse
    /\ wa_prev_result = ReturnFalse

\* WordAnalyzer.__init__(actions, words, blacklist, case_sensitive), lines 11-16
WaInit ==
    /\ wa_words = <<>>
    /\ wa_blacklist \in SeqsUpTo(WordPool, MaxBlacklist)
    /\ wa_blacklist0 = wa_blacklist
    /\ wa_case_sensitive \in BOOLEAN
    /\ wa_calls = 0
    /\ wa_paste = NonePaste
    /\ wa_result = ReturnFalse
    /\ wa_prev_result = ReturnFalse

\* add_word(word), lines 25-30; the words are added before the first match
AddWord ==
    /\ wa_calls = 0
    /\ Len(wa_words) < MaxWords
    /\ \E w \in WordPool : wa_words' = Append(wa_words, w)
    /\ UNCHANGED <<wa_blacklist, wa_blacklist0, wa_case_sensitive, wa_calls, wa_paste,
                   wa_result, wa_prev_result, orch_vars, disp_vars, sf_vars, pipe_vars>>

\* match(paste), lines 32-50, with the assignment to self.blacklist of line 21.
\* The first call takes any paste; the calls after it repeat the same paste
\* (what a call leaves behind in self.blacklist does not depend on the paste,
\* save for None, which leaves it as it was).
Match ==
    /\ wa_calls < MaxMatchCalls
    /\ \E paste \in (IF wa_calls = 0 THEN Pastes ELSE {wa_paste}) :
          /\ wa_paste' = paste
          /\ wa_result' = MatchReturn(paste, wa_words, wa_blacklist, wa_case_sensitive)
          /\ wa_blacklist' = IF paste.none THEN wa_blacklist
                             ELSE BlacklistAfter(wa_blacklist, wa_case_sensitive)
    /\ wa_prev_result' = wa_result
    /\ wa_calls' = wa_calls + 1
    /\ UNCHANGED <<wa_words, wa_blacklist0, wa_case_sensitive, orch_vars, disp_vars,
                   sf_vars, pipe_vars>>

(***************************************************************************)
(* SaveFileAction (actions/savefileaction.py).  Strings are sequences of   *)
(* characters; a template is a sequence of characters and placeholders.    *)
(***************************************************************************)
Chars(str) ==
    CASE str = "abc123" -> <<"a", "b", "c", "1", "2", "3">>
      [] str = "x1"     -> <<"x", "1">>
      [] str = ".txt"   -> <<".", "t", "x", "t">>
      [] str = "txt"    -> <<"t", "x", "t">>
      [] str = ".j"     -> <<".", "j">>
      [] str = ""       -> <<>>

\* paste.key and paste.body of the pastes saved
SaveKeys == {Chars("abc123"), Chars("x1")}
SaveBodies == {<<"a", "A", "b">>, <<"b">>}
SavePastes == [key : SaveKeys, body : SaveBodies]

\* line 12: file_ending, ".txt" unless given
FileEndings == {Chars(".txt"), Chars(".j"), Chars(""), Chars("txt")}

\* line 12: template, None unless given
NoTemplate == [none |-> TRUE, tokens |-> <<>>]
GivenTemplate(tokens) == [none |-> FALSE, tokens |-> tokens]
TemplateArgs ==
    {NoTemplate, GivenTemplate(<<>>), GivenTemplate(<<"${body}">>),
     GivenTemplate(<<"${key}", ":", "${body}">>)}

\* line 23: template or "${body}"
TemplateOrDefault(t) ==
    IF t.none \/ t.tokens = <<>> THEN <<"${body}">> ELSE t.tokens

\* TemplatingEngine.fill_template: each placeholder replaced by the paste's value
RECURSIVE FillTemplate(_, _)
FillTemplate(paste, tokens) ==
    IF tokens = <<>> THEN <<>>
    ELSE (CASE Head(tokens) = "${body}" -> paste.body
            [] Head(tokens) = "${key}"  -> paste.key
            [] OTHER                    -> <<Head(tokens)>>)
         \o FillTemplate(paste, Tail(tokens))

\* perform naming every file key "." file_ending
FileName_AlwaysDot(key, file_ending) == key \o <<".">> \o file_ending

\* lines 36-41: the name of the file
FileName(key, file_ending) ==
    IF file_ending # <<>> /\ Head(file_ending) = "." THEN key \o file_ending
    ELSE IF file_ending = <<>> THEN key
    ELSE key \o <<".">> \o file_ending

\* lines 33-34: os.makedirs(self.path) unless the path exists
MakeDirs(exists) == IF exists THEN <<>> ELSE <<[op |-> "makedirs"]>>

\* lines 44-45: open(name, "w") and write: the file is created or replaced
WriteFile(files, name, content) ==
    {f \in files : f.name # name} \cup {[name |-> name, content |-> content]}

\* No file-save action under test
SfIdle ==
    /\ sf_file_ending = Chars(".txt")
    /\ sf_template = <<"${body}">>
    /\ sf_dir_exists = FALSE
    /\ sf_files = {}
    /\ sf_ops = <<>>
    /\ sf_calls = 0
    /\ sf_paste = [key |-> Chars("abc123"), body |-> <<"b">>]

\* lines 12-23: SaveFileAction(path, file_ending, template); the directory may exist
SfInit ==
    /\ sf_file_ending \in FileEndings
    /\ \E t \in TemplateArgs : sf_template = TemplateOrDefault(t)
    /\ sf_dir_exists \in BOOLEAN
    /\ sf_files = {}
    /\ sf_ops = <<>>
    /\ sf_calls = 0
    /\ sf_paste = [key |-> Chars("abc123"), body |-> <<"b">>]

\* lines 25-45: perform(paste)
Perform ==
    /\ sf_calls < MaxSaveCalls
    /\ \E paste \in SavePastes :
          LET file_name == FileName(paste.key, sf_file_ending)
              content == FillTemplate(paste, sf_template)
          IN  /\ sf_paste' = paste
              /\ sf_ops' = MakeDirs(sf_dir_exists)
                           \o <<[op |-> "write", name |-> file_name, content |-> content]>>
              /\ sf_files' = WriteFile(sf_files, file_name, content)
    /\ sf_dir_exists' = TRUE
    /\ sf_calls' = sf_calls + 1
    /\ UNCHANGED <<sf_file_ending, sf_template, orch_vars, disp_vars, wa_vars, pipe_vars>>

(***************************************************************************)
(* The pipeline behind start(): the scrapers fill the paste queue,         *)
(* PasteDispatcher turns each paste into invocations on the action queue,  *)
(* ActionHandler executes them.  The three stages are modelled from spec   *)
(* 4.1-4.3; the analyzers and actions they call are the repository's.      *)
(***************************************************************************)
\* The pastes the scrapers produce
PipeBodies == {<<"A">>, <<"a", "b">>, <<"b", "A">>}
PipePastes == {[none |-> FALSE, has_body |-> TRUE, body |-> b] : b \in PipeBodies}

\* lines 29-30: both queues are empty after construction
PipeInit ==
    /\ paste_queue = <<>>
    /\ action_queue = <<>>
    /\ action_log = <<>>
    /\ scraped = 0

\* A scraper's execution unit pushes a paste onto the paste queue
Scrape ==
    /\ running["scraping"]
    /\ scrapers # <<>>
    /\ scraped < MaxPastes
    /\ \E paste \in PipePastes : paste_queue' = Append(paste_queue, paste)
    /\ scraped' = scraped + 1
    /\ UNCHANGED <<action_queue, action_log, orch_vars, disp_vars, wa_vars, sf_vars>>

\* analyzer.match(paste) as PasteDispatcher sees it: a failure, or the value returned
\* (truthy: neither False nor an empty list; AlwaysTrueAnalyzer.match returns True)
AnalyzerMatch(a, paste) ==
    CASE a.kind = "raise" -> [failed |-> TRUE, truthy |-> FALSE, matches |-> <<>>]
      [] a.kind = "true"  -> [failed |-> FALSE, truthy |-> TRUE, matches |-> <<>>]
      [] a.kind = "word"  ->
            LET r == MatchReturn(paste, a.words, a.blacklist, a.case_sensitive)
            IN  [failed |-> FALSE, truthy |-> ~r.is_false /\ r.matches # <<>>,
                 matches |-> r.matches]

\* a match that is neither False nor empty
NonEmptyMatch(m) == ~m.failed /\ m.truthy

\* the invocations of one analyzer for a paste: one per action of the analyzer
AnalyzerInvocations(a, paste) ==
    LET m == AnalyzerMatch(a, paste)
    IN  IF NonEmptyMatch(m)
        THEN [i \in 1..Len(a.actions) |->
                 [action |-> a.actions[i], paste |-> paste, analyzer |-> a.name,
                  matches |-> m.matches]]
        ELSE <<>>

\* the invocations of all analyzers for a paste, in registration order
RECURSIVE Invocations(_, _)
Invocations(as, paste) ==
    IF as = <<>> THEN <<>>
    ELSE AnalyzerInvocations(Head(as), paste) \o Invocations(Tail(as), paste)

\* PasteDispatcher takes one paste from the paste queue and processes it
Dispatch ==
    /\ running["dispatch"]
    /\ paste_queue # <<>>
    /\ paste_queue' = Tail(paste_queue)
    /\ action_queue' = action_queue \o Invocations(analyzers, Head(paste_queue))
    /\ UNCHANGED <<action_log, scraped, orch_vars, disp_vars, wa_vars, sf_vars>>

\* BasicAction.perform returning instead of raising
PerformOutcome_BasicReturns(action) == "ok"

\* basicaction.py lines 9-11, databaseaction.py lines 13-15: how perform ends
PerformOutcome(action) ==
    IF action = "basic" THEN "raised" ELSE "ok"

\* ActionHandler takes one invocation from the action queue and executes it; a
\* failure of the action is caught and logged
ActionStep ==
    /\ running["action"]
    /\ action_queue # <<>>
    /\ action_queue' = Tail(action_queue)
    /\ action_log' = Append(action_log,
                            [invocation |-> Head(action_queue),
                             outcome |-> PerformOutcome(Head(action_queue).action)])
    /\ UNCHANGED <<paste_queue, scraped, orch_vars, disp_vars, wa_vars, sf_vars>>

Init == OrchInit /\ WaIdle /\ SfIdle /\ PipeInit

Next ==
    \/ AddScraper
    \/ AddAnalyzer
    \/ AddErrorHandler
    \/ AddOnstartHandler
    \/ StartEnter
    \/ StartStage
    \/ StartOnstart
    \/ Stop
    \/ StopStage
    \/ StopFlag
    \/ OtherStopStage
    \/ OtherStopFlag
    \/ SignalHandler
    \/ SignalStopStage
    \/ SignalStopFlag
    \/ ScraperFault
    \/ IdleEnter
    \/ IdleLoop
    \/ IdleCheck
    \/ IdleHandler
    \/ IdleFaultStop
    \/ IdleFaultReturn
    \/ IdleSleep
    \/ AddWord
    \/ Match
    \/ Perform
    \/ Scrape
    \/ Dispatch
    \/ ActionStep

Spec == Init /\ [][Next]_vars

\* start() and stop() alone: the calls of the main thread up to idle().  The
\* analyzers are those of the constructor: start() and stop() do not read them.
NextStart ==
    \/ AddScraper
    \/ AddOnstartHandler
    \/ StartEnter
    \/ StartStage
    \/ StartOnstart
    \/ Stop
    \/ StopStage
    \/ StopFlag
    \/ ScraperFault

SpecStart == Init /\ [][NextStart]_vars

\* idle() and what runs beside it; no onstart handler is registered, and the
\* analyzers are those of the constructor
NextIdle ==
    \/ AddScraper
    \/ AddErrorHandler
    \/ StartEnter
    \/ StartStage
    \/ Stop
    \/ StopStage
    \/ StopFlag
    \/ OtherStopStage
    \/ OtherStopFlag
    \/ SignalHandler
    \/ SignalStopStage
    \/ SignalStopFlag
    \/ ScraperFault
    \/ IdleEnter
    \/ IdleLoop
    \/ IdleCheck
    \/ IdleHandler
    \/ IdleFaultStop
    \/ IdleFaultReturn
    \/ IdleSleep

SpecIdle == Init /\ [][NextIdle]_vars

\* The signal path watched closely: start() is called once, with
\* no scraper registered before it, and idle() once; the analyzers are none (a
\* constructor without database).  Everything that runs beside them is there:
\* stop() of the main thread and of the other thread, signals, a failing
\* scraper.
InitWatch == Init /\ analyzers = <<>>

NextWatch ==
    \/ AddErrorHandler
    \/ StartEnter /\ scrapers = <<>>
    \/ StartStage
    \/ Stop
    \/ StopStage
    \/ StopFlag
    \/ OtherStopStage
    \/ OtherStopFlag
    \/ SignalHandler
    \/ SignalStopStage
    \/ SignalStopFlag
    \/ ScraperFault
    \/ IdleEnter /\ idle_runs = 0
    \/ IdleLoop
    \/ IdleCheck
    \/ IdleHandler
    \/ IdleFaultStop
    \/ IdleFaultReturn
    \/ IdleSleep

SpecWatch == InitWatch /\ [][NextWatch]_vars

\* The exception event through every call of the main thread: add_scraper,
\* add_analyzer (once), add_error_handler, start() and stop() at any time, also
\* once the event is set, idle() (once) with its fault path, the signal
\* handler, and a failing scraper.  No onstart handler is registered and no
\* other thread calls stop().
NextEvent ==
    \/ AddScraper
    \/ AddAnalyzer /\ analyzers = <<>>
    \/ AddErrorHandler
    \/ StartEnter
    \/ StartStage
    \/ Stop
    \/ StopStage
    \/ StopFlag
    \/ SignalHandler
    \/ SignalStopStage
    \/ SignalStopFlag
    \/ ScraperFault
    \/ IdleEnter /\ idle_runs = 0
    \/ IdleLoop
    \/ IdleCheck
    \/ IdleHandler
    \/ IdleFaultStop
    \/ IdleFaultReturn
    \/ IdleSleep

SpecEvent == InitWatch /\ [][NextEvent]_vars

\* One WordAnalyzer: constructed, then add_word and match in any order
InitWord == OrchInit /\ analyzers = <<>> /\ WaInit /\ SfIdle /\ PipeInit

NextWord ==
    \/ AddWord
    \/ Match

SpecWord == InitWord /\ [][NextWord]_vars

\* SaveFileAction alone: an action constructed, then perform called on pastes
InitSave == OrchInit /\ analyzers = <<>> /\ WaIdle /\ SfInit /\ PipeInit

NextSave ==
    \/ Perform

SpecSave == InitSave /\ [][NextSave]_vars

\* The pipeline: analyzers registered before start(), start() called once (no scraper is
\* registered before it), then the three stages at work.  start() once
\* entered runs on, and PasteDispatcher and ActionHandler loop for as long as
\* they are not stopped.
NextDispatch ==
    \/ AddAnalyzer /\ RegisteringHandlers
    \/ StartEnter /\ scrapers = <<>>
    \/ StartStage
    \/ Scrape
    \/ Dispatch
    \/ ActionStep

SpecDispatch ==
    /\ Init /\ [][NextDispatch]_vars
    /\ WF_vars(StartStage) /\ WF_vars(Dispatch) /\ WF_vars(ActionStep)

(***************************************************************************)
(* Shapes of the state.                                                    *)
(***************************************************************************)
TypeOK ==
    /\ is_idle \in BOOLEAN
    /\ exception_event \in BOOLEAN
    /\ error_handlers \in SeqsUpTo(ErrorKinds, MaxErrorHandlers)
    /\ onstart_handlers \in SeqsUpTo(OnstartKinds, MaxOnstartHandlers)
    /\ \A i \in 1..Len(scrapers) : scrapers[i] \in Scrapers
    /\ running \in [Stages -> BOOLEAN]
    /\ main_pc \in {"ready", "start_stages", "start_onstart", "stop", "loop", "check",
                   "handlers", "fault_stop", "fault_return", "sleep"}
    /\ stop_i \in 0..Len(StageStopOrder)
    /\ sig_pc \in SeqsUpTo(0..Len(StageStopOrder), MaxSignals)
    /\ other_pc \in 0..Len(StageStopOrder)
    /\ start_i \in 0..3
    /\ \A i \in 1..Len(analyzers) : analyzers[i] \in AnalyzerPool \cup {StoreAllAnalyzer}
    /\ last_call \in {"none", "add_handler", "add_scraper", "start", "stop", "idle"}
    /\ last_result \in {"ok", "exit", "raised", "fault_return", "running"}
    /\ Len(err_total) = Len(error_handlers)
    /\ wa_result.is_false \in BOOLEAN

\* The stages start() has started, in the order it started them
StartedStages(log) ==
    LET starts == SelectSeq(log, LAMBDA e : e.kind = "start")
    IN  [i \in 1..Len(starts) |-> starts[i].name]

\* The onstart handlers start() has called, in the order it called them
OnstartCalls(log) ==
    LET calls == SelectSeq(log, LAMBDA e : e.kind = "onstart")
    IN  [i \in 1..Len(calls) |-> calls[i].idx]

\* The number of default scrapers start() has registered
DefaultsAdded(log) == Len(SelectSeq(log, LAMBDA e : e.kind = "add_scraper"))

AllStopRequested == \A s \in Stages : stop_req[s] >= 1

\* The last idle() has ended and the main thread has made no call since
IdleEnded == main_pc = "ready" /\ last_call = "idle"

(***************************************************************************)
(* C1  When the exception event is set after start(), the next poll of     *)
(* idle() calls every registered error handler exactly once, in            *)
(* registration order, then asks the three stages to stop, and idle()      *)
(* returns.                                                                *)
(***************************************************************************)
C1_FaultPollCallsAllHandlersThenStops ==
    (IdleEnded /\ last_result \in {"fault_return", "raised"}) =>
        /\ last_result = "fault_return"
        /\ err_log = Indices(error_handlers)
        /\ AllStopRequested

(***************************************************************************)
(* C2  start() called while the exception event is set fails at once: no   *)
(* default scraper is registered, no stage is started, no onstart handler  *)
(* is called.                                                              *)
(***************************************************************************)
C2_StartWithEventSetStartsNothing ==
    [][(StartEnter /\ exception_event) =>
          /\ scrapers' = scrapers
          /\ running' = running
          /\ start_log' = <<>>
          /\ last_result' = "exit"
          /\ main_pc' = "ready"]_vars

C2_Witness ==
    /\ last_call = "start"
    /\ last_result = "exit"
    /\ exception_event
    /\ onstart_handlers # <<>>
    /\ \A s \in Stages : ~running[s]

(***************************************************************************)
(* C3  start() with an empty scraper registry registers exactly one        *)
(* default scraper and starts scraping; start() with a scraper already     *)
(* registered (a default one of an earlier start() included) registers     *)
(* none.                                                                   *)
(***************************************************************************)
C3_DefaultScraperOnlyIfNoneRegistered ==
    /\ [][(StartEnter /\ ~exception_event) =>
             IF scrapers = <<>>
             THEN /\ Len(scrapers') = 1
                  /\ scrapers'[1].kind = "default"
                  /\ DefaultsAdded(start_log') = 1
             ELSE /\ scrapers' = scrapers
                  /\ DefaultsAdded(start_log') = 0]_vars
    /\ []((last_call = "start" /\ last_result \in {"ok", "raised"}) =>
             /\ running["scraping"]
             /\ scrapers # <<>>
             /\ DefaultsAdded(start_log) <= 1)

C3_Witness ==
    /\ last_call = "start"
    /\ last_result = "ok"
    /\ Len(scrapers) = 1
    /\ scrapers[1].kind = "default"
    /\ DefaultsAdded(start_log) = 0
    /\ running["scraping"]

(***************************************************************************)
(* C4  An error handler that raises stops neither the remaining error      *)
(* handlers from being called nor the three stages from being stopped.     *)
(***************************************************************************)
C4_RaisingErrorHandlerStopsNothing ==
    (IdleEnded /\ \E k \in 1..Len(err_log) : error_handlers[err_log[k]] = "raise") =>
        /\ err_log = Indices(error_handlers)
        /\ AllStopRequested

(***************************************************************************)
(* C5  Whatever onstart handlers raise, start() calls every onstart        *)
(* handler once in registration order, returns normally and leaves the     *)
(* three stages started.                                                   *)
(***************************************************************************)
C5_FailingOnstartHandlerIsRecovered ==
    (last_call = "start" /\ last_result \in {"ok", "raised"}) =>
        /\ last_result = "ok"
        /\ OnstartCalls(start_log) = Indices(onstart_handlers)
        /\ \A s \in Stages : running[s]

(***************************************************************************)
(* C6  After the exception event has been set once, each error handler is  *)
(* called at most once in total, whatever start(), idle() and stop() calls *)
(* follow.  Stated for error handlers that return normally, the case in    *)
(* which every idle() reaches its own shutdown.                            *)
(***************************************************************************)
C6_ErrorHandlerAtMostOncePerEpisode ==
    (\A i \in 1..Len(error_handlers) : error_handlers[i] = "ok") =>
        \A i \in 1..Len(err_total) : err_total[i] <= 1

(***************************************************************************)
(* C7  The exception event, once set, stays set through every call of the  *)
(* orchestrator, and no call of the orchestrator sets it: only a failing   *)
(* scraper does.                                                           *)
(***************************************************************************)
C7_EventStaysSetAndOnlyScrapersSetIt ==
    [][/\ exception_event => exception_event'
       /\ (exception_event' # exception_event) => ScraperFault]_vars

C7_Witness ==
    /\ exception_event
    /\ idle_runs >= 1
    /\ signals >= 1
    /\ sig_pc = <<>>
    /\ Len(scrapers) = 2
    /\ analyzers # <<>>
    /\ last_call = "start"
    /\ last_result = "exit"
    /\ \A s \in Stages : ~running[s]

(***************************************************************************)
(* C8  A signal received while idle() sleeps and the exception event is    *)
(* clear stops the orchestrator directly: the three stages are asked to    *)
(* stop, idle() leaves its loop at the next test and returns, and no error *)
(* handler is called.                                                      *)
(***************************************************************************)
C8_SignalWhileWaitingStopsDirectly ==
    (sig_in_wait /\ (InIdle \/ IdleEnded)) =>
        /\ ~is_idle
        /\ err_log = <<>>
        /\ main_pc \in {"sleep", "loop", "ready"}
        /\ sig_pc = <<>> => AllStopRequested
        /\ (sig_pc = <<>> /\ InIdle) => \A s \in Stages : ~running[s]
        /\ IdleEnded => last_result = "ok"

C8_Witness ==
    /\ sig_in_wait
    /\ IdleEnded
    /\ last_result = "ok"
    /\ error_handlers # <<>>
    /\ exception_event
    /\ \A s \in Stages : ~running[s]

(***************************************************************************)
(* C9  start() starts the scraping handler, then the dispatcher, then the  *)
(* action handler, and calls the onstart handlers only after the three,    *)
(* in the order of their registration.                                     *)
(***************************************************************************)
C9_StagesThenOnstartHandlersInOrder ==
    (last_call = "start" /\ last_result \in {"ok", "raised"}) =>
        /\ StartedStages(start_log) = <<"scraping", "dispatch", "action">>
        /\ \A i, j \in 1..Len(start_log) :
              (start_log[i].kind = "onstart" /\ start_log[j].kind = "start") => j < i
        /\ OnstartCalls(start_log) = [i \in 1..Len(OnstartCalls(start_log)) |-> i]
        /\ \A i \in 1..Len(start_log) :
              start_log[i].kind = "onstart" =>
                  start_log[i].name = onstart_handlers[start_log[i].idx]
        /\ last_result = "ok" => Len(OnstartCalls(start_log)) = Len(onstart_handlers)

C9_Witness ==
    /\ last_call = "start"
    /\ last_result = "ok"
    /\ Len(onstart_handlers) = 2
    /\ OnstartCalls(start_log) = <<1, 2>>
    /\ \A s \in Stages : running[s]

(***************************************************************************)
(* C10  With a non-empty blacklist, a blacklist word that is a substring   *)
(* of the paste body (exactly if case_sensitive, after lower-casing both   *)
(* otherwise) makes match return False, whatever target words occur.       *)
(***************************************************************************)
OccursIn(word, body, cs) ==
    IF cs THEN IsSubstring(word, body) ELSE IsSubstring(Lower(word), Lower(body))

C10_BlacklistHitReturnsFalse ==
    (/\ wa_calls >= 1
     /\ ~wa_paste.none
     /\ wa_blacklist0 # <<>>
     /\ \E i \in 1..Len(wa_blacklist0) :
           OccursIn(wa_blacklist0[i], PasteContent(wa_paste), wa_case_sensitive))
    => wa_result = ReturnFalse

C10_Witness ==
    /\ wa_calls >= 1
    /\ ~wa_case_sensitive
    /\ wa_paste.has_body
    /\ \E i \in 1..Len(wa_blacklist0) :
          /\ OccursIn(wa_blacklist0[i], wa_paste.body, FALSE)
          /\ ~IsSubstring(wa_blacklist0[i], wa_paste.body)
    /\ \E i \in 1..Len(wa_words) : OccursIn(wa_words[i], wa_paste.body, FALSE)
    /\ wa_result = ReturnFalse

(***************************************************************************)
(* C11  Without a blacklist hit, match returns exactly the configured      *)
(* words that are substrings of the paste body (both sides lower-cased     *)
(* unless case_sensitive), each as configured, in configuration order, all *)
(* of them and not only the first.                                         *)
(***************************************************************************)
BlacklistHit ==
    \E i \in 1..Len(wa_blacklist0) :
        OccursIn(wa_blacklist0[i], PasteContent(wa_paste), wa_case_sensitive)

C11_ReturnsEveryWordFoundInOrder ==
    (wa_calls >= 1 /\ ~wa_paste.none /\ ~BlacklistHit) =>
        /\ ~wa_result.is_false
        /\ \E f \in [1..Len(wa_result.matches) -> 1..Len(wa_words)] :
              /\ \A k \in 1..Len(wa_result.matches) : wa_result.matches[k] = wa_words[f[k]]
              /\ \A k, l \in 1..Len(wa_result.matches) : k < l => f[k] < f[l]
              /\ \A i \in 1..Len(wa_words) :
                    OccursIn(wa_words[i], PasteContent(wa_paste), wa_case_sensitive)
                    <=> \E k \in 1..Len(wa_result.matches) : f[k] = i

C11_Witness ==
    /\ wa_calls >= 1
    /\ ~wa_case_sensitive
    /\ ~BlacklistHit
    /\ wa_words = << <<"A", "b">>, <<"a">> >>
    /\ wa_paste.has_body
    /\ wa_paste.body = <<"b", "a", "b">>
    /\ wa_result = ReturnList(wa_words)

(***************************************************************************)
(* C12  match is deterministic: two calls in a row with the same paste on  *)
(* the same analyzer return the same result, for both values of            *)
(* case_sensitive and for blacklists with upper-case letters.              *)
(***************************************************************************)
C12_SamePasteSameResult ==
    wa_calls >= 2 => wa_result = wa_prev_result

C12_Witness ==
    /\ wa_calls >= 2
    /\ ~wa_case_sensitive
    /\ wa_blacklist0 # wa_blacklist
    /\ BlacklistHit
    /\ wa_result = ReturnFalse
    /\ wa_prev_result = ReturnFalse

(***************************************************************************)
(* C13  match leaves the analyzer as it found it: the words, the blacklist *)
(* and case_sensitive are the same after a call as before it.              *)
(***************************************************************************)
C13_MatchLeavesConfigurationAlone ==
    [][Match =>
          /\ wa_words' = wa_words
          /\ wa_blacklist' = wa_blacklist
          /\ wa_case_sensitive' = wa_case_sensitive]_vars

(***************************************************************************)
(* C14  perform creates the directory if it does not exist and then writes *)
(* exactly one file: its name is key + file_ending if file_ending starts   *)
(* with ".", key if file_ending is empty and key + "." + file_ending       *)
(* otherwise, and its contents are the filled template.  With the default  *)
(* template and ending and the key "abc123" the file is abc123.txt and     *)
(* holds the paste body.                                                   *)
(***************************************************************************)
ExpectedName(key, ending) ==
    IF ending = <<>> THEN key
    ELSE IF ending[1] = "." THEN [i \in 1..(Len(key) + Len(ending)) |->
                                     IF i <= Len(key) THEN key[i] ELSE ending[i - Len(key)]]
    ELSE [i \in 1..(Len(key) + 1 + Len(ending)) |->
             IF i <= Len(key) THEN key[i]
             ELSE IF i = Len(key) + 1 THEN "." ELSE ending[i - Len(key) - 1]]

C14_SaveCreatesDirectoryThenWritesOneFile ==
    [][Perform =>
          LET name == ExpectedName(sf_paste'.key, sf_file_ending)
              content == FillTemplate(sf_paste', sf_template)
              written == [op |-> "write", name |-> name, content |-> content]
          IN  /\ sf_ops' = IF sf_dir_exists THEN <<written>>
                           ELSE <<[op |-> "makedirs"], written>>
              /\ sf_dir_exists'
              /\ [name |-> name, content |-> content] \in sf_files'
              /\ \A f \in sf_files' : f.name = name => f.content = content
              /\ \A f \in sf_files' : f.name # name => f \in sf_files
              /\ \A f \in sf_files : f.name # name => f \in sf_files'
              /\ (sf_template = <<"${body}">>) => content = sf_paste'.body
    ]_vars

C14_Witness ==
    /\ sf_calls = 1
    /\ sf_file_ending = Chars(".txt")
    /\ sf_template = <<"${body}">>
    /\ sf_paste.key = Chars("abc123")
    /\ sf_ops = <<[op |-> "makedirs"],
                  [op |-> "write", name |-> <<"a", "b", "c", "1", "2", "3", ".", "t", "x", "t">>,
                   content |-> sf_paste.body]>>
    /\ sf_files = {[name |-> <<"a", "b", "c", "1", "2", "3", ".", "t", "x", "t">>,
                    content |-> sf_paste.body]}

(***************************************************************************)
(* C15  For every paste taken from the paste queue, the number of          *)
(* invocations the dispatcher puts on the action queue is the sum, over    *)
(* the analyzers whose match is non-empty, of the number of their actions: *)
(* an analyzer returning False or an empty list, or failing, adds none,    *)
(* and two analyzers matching the same paste both add theirs.              *)
(***************************************************************************)
MatchesPaste(a, paste) ==
    \/ a.kind = "true"
    \/ /\ a.kind = "word"
       /\ ~paste.none
       /\ \A i \in 1..Len(a.blacklist) :
             ~OccursIn(a.blacklist[i], PasteContent(paste), a.case_sensitive)
       /\ \E i \in 1..Len(a.words) :
             OccursIn(a.words[i], PasteContent(paste), a.case_sensitive)

RECURSIVE ExpectedInvocations(_, _)
ExpectedInvocations(as, paste) ==
    IF as = <<>> THEN 0
    ELSE (IF MatchesPaste(Head(as), paste) THEN Len(Head(as).actions) ELSE 0)
         + ExpectedInvocations(Tail(as), paste)

C15_InvocationsPerPaste ==
    [][Dispatch =>
          Len(action_queue') =
              Len(action_queue) + ExpectedInvocations(analyzers, Head(paste_queue))]_vars

C15_Witness ==
    /\ analyzers = <<WordA, WordB>>
    /\ scraped = 1
    /\ paste_queue = <<>>
    /\ Len(action_queue) = 3
    /\ \A i \in 1..3 : action_queue[i].paste.body = <<"b", "A">>
    /\ action_queue[1].analyzer = "A"
    /\ action_queue[3].analyzer = "B"

(***************************************************************************)
(* C16  An action that fails, as the perform of BasicAction does, neither  *)
(* stops the action stage nor sets the exception event: every invocation   *)
(* queued behind it is still executed.                                     *)
(***************************************************************************)
\* the invocations executed so far followed by those still queued
AllInvocations ==
    [i \in 1..Len(action_log) |-> action_log[i].invocation] \o action_queue

C16_FailingActionDoesNotHaltStage ==
    /\ [][ActionStep =>
             /\ running' = running
             /\ exception_event' = exception_event
             /\ Head(action_queue).action = "basic"
                => action_log'[Len(action_log')].outcome = "raised"]_vars
    /\ [][/\ Len(AllInvocations') >= Len(AllInvocations)
          /\ SubSeq(AllInvocations', 1, Len(AllInvocations)) = AllInvocations]_vars
    /\ (action_queue # <<>>) ~> (action_queue = <<>>)

C16_Witness ==
    /\ running["action"]
    /\ ~exception_event
    /\ \E i, j \in 1..Len(action_log) :
          /\ i < j
          /\ action_log[i].invocation.action = "basic"
          /\ action_log[i].outcome = "raised"
          /\ action_log[j].outcome = "ok"

(***************************************************************************)
(* C17  Whenever idle() hands control back to its caller, by whatever way  *)
(* out, stop has been requested on the three stages during that run of     *)
(* idle(), no stage is running and is_idle is false.                       *)
(***************************************************************************)
C17_IdleEndsWithStagesStopped ==
    IdleEnded =>
        /\ ~is_idle
        /\ AllStopRequested
        /\ \A s \in Stages : ~running[s]

(***************************************************************************)
(* C18  A stop() of another thread makes idle() return, if the exception   *)
(* event stays clear, also when it completes just before idle() sets       *)
(* is_idle: while idle() runs after a start() that started the stages, the *)
(* stages having been stopped since by a stop() of the other thread that   *)
(* has completed (no signal, no fault) means that is_idle is false, so     *)
(* that the loop ends at its next test.                                    *)
(***************************************************************************)
StoppedByOtherThread ==
    /\ last_call = "start"
    /\ last_result = "ok"
    /\ signals = 0
    /\ ~exception_event
    /\ other_stops >= 1
    /\ other_pc = 0
    /\ \A s \in Stages : ~running[s]

C18_StopBeforeIdleIsNotLost ==
    (InIdle /\ StoppedByOtherThread) => ~is_idle

(***************************************************************************)
(* C19  In one run of idle() that ends by a signal or by the fault path,   *)
(* with no stop() of another thread, stop() is requested exactly once on   *)
(* each stage, also when the signal arrives during the fault path.         *)
(***************************************************************************)
C19_EachStageStoppedOncePerIdle ==
    (IdleEnded /\ last_result # "raised" /\ other_stops = 0) =>
        \A s \in Stages : stop_req[s] = 1

(***************************************************************************)
(* C20  Every scraper in the registry of the scraping handler, added by    *)
(* add_scraper or by start() as the default, has been given the exception  *)
(* event of the orchestrator, the one the three stages are constructed     *)
(* with, before it was registered.                                         *)
(***************************************************************************)
C20_ScrapersShareTheStagesEvent ==
    \A i \in 1..Len(scrapers) : \A s \in Stages : scrapers[i].event = StageEvent(s)

C20_Witness ==
    /\ last_call = "start"
    /\ running["scraping"]
    /\ scrapers # <<>>
    /\ scrapers[1].kind = "default"
    /\ scrapers[1].event = StageEvent("scraping")

====
